---- MODULE Spec2Model ----
(***************************************************************************)
(* mal-mcp-server: the client-side filtering and pagination engine         *)
(* (filters.ts), the HTTP client (client.ts), the formatters (format.ts)   *)
(* and the seven tool handlers (index.ts).                                 *)
(*                                                                         *)
(* JavaScript objects with optional properties are TLA+ records whose      *)
(* DOMAIN holds exactly the properties that are defined.  Scores are kept  *)
(* in tenths (mean 8.0 is 80).                                             *)
(***************************************************************************)
EXTENDS Integers, Sequences, FiniteSets, TLC

VARIABLES
    catalogSize,     \* remote: number of records each endpoint holds
    pc,              \* where the followed tool call stands:
                     \*   "idle"      no call
                     \*   "awaiting"  request sent, fetch pending
                     \*   "replied"   fetch resolved, body not read yet
                     \*   "parsed"    response.json() resolved
                     \*   "rejected"  the client's promise rejected
                     \*   "returned"  filteredFetch returned
                     \*   "threw"     filteredFetch rejected
                     \*   "formatted" the handler's fn() resolved with its text
                     \*   "answered"  handleToolError returned the tool result
    tool,            \* which tool was called
    filters,         \* options.filters
    requestedLimit,  \* options.requestedLimit
    initialOffset,   \* options.initialOffset
    seasonContext,   \* options.seasonContext (empty record when not passed)
    calls,           \* fetchPage calls issued by the invocation, in order
    result,          \* what response.json() resolved with (empty record before)
    items,           \* returned items
    meta,            \* returned FilterMeta (empty record before / on failure)
    fetchError,      \* reason the client's promise rejected with ("" when none)
    error,           \* rejection reason of filteredFetch ("" when none)
    probe,           \* inputs of one application of a pure function
    verdict,         \* what that application returned (empty record before)
    inflight,        \* tool calls in flight at once: id -> the call's own state
    now,             \* the clock read by getCurrentSeason: [year, month]
    toolArgs,        \* arguments of the tool call, as the schema delivers them
    httpRequest,     \* the request the client sent
    httpResponse,    \* the remote's reply (empty record: none, or no reply)
    text,            \* the text fn() resolved with (empty before)
    response,        \* the tool result handed to the transport
    caller,          \* arguments of a caller that follows nextOffset
    chain            \* the completed calls of that caller, in order

vars == <<catalogSize, pc, tool, filters, requestedLimit, initialOffset,
          seasonContext, calls, result, items, meta, fetchError, error,
          probe, verdict, inflight,
          now, toolArgs, httpRequest, httpResponse, text, response,
          caller, chain>>

\* The state of the followed tool call
callVars == <<pc, tool, filters, requestedLimit, initialOffset,
              seasonContext, calls, result, items, meta, fetchError, error,
              now, toolArgs, httpRequest, httpResponse, text, response>>

\* State outside the life cycle of the followed call
auxVars == <<probe, verdict, inflight, caller, chain>>

----------------------------------------------------------------------------
(* Bounds of the exploration *)

MaxCatalog == 212

----------------------------------------------------------------------------
(* Small helpers *)

Undefined == [k \in {} |-> 0]

Has(obj, key) == key \in DOMAIN obj

Opt(cond, rec) == IF cond THEN rec ELSE Undefined

Min(a, b) == IF a <= b THEN a ELSE b

\* Array.prototype.slice(0, n) for n >= 0
Slice0(seq, n) == SubSeq(seq, 1, Min(n, Len(seq)))

\* String.prototype.toLowerCase over the genre vocabulary of the model
ToLowerCase(s) ==
    CASE s \in {"Action", "ACTION", "action"}    -> "action"
      [] s \in {"Romance", "ROMANCE", "romance"} -> "romance"
      [] s \in {"Comedy", "COMEDY", "comedy"}    -> "comedy"
      [] OTHER -> s

\* Variant of ToUpperCase: the mode left as given
ToUpperCase_Identity(s) == s

\* String.prototype.toUpperCase over the genre_mode values
ToUpperCase(s) ==
    CASE s = "or"  -> "OR"
      [] s = "and" -> "AND"
      [] OTHER -> s

MapLower(seq) == [i \in DOMAIN seq |-> ToLowerCase(seq[i])]

Includes(seq, x) == \E i \in DOMAIN seq : seq[i] = x

----------------------------------------------------------------------------
(* filters.ts: activity test *)

MODIFIER_KEYS == {"genre_mode"}

ArrayKeys == {"genres_include", "genres_exclude", "media_type", "source"}
BoolKeys == {"current_season_only"}

\* Variants of hasActiveFilters: a false flag counts as a value / an empty
\* array counts as a value
hasActiveFilters_FalseCounts(flt) ==
    \E key \in DOMAIN flt :
        /\ key \notin MODIFIER_KEYS
        /\ ~(key \in ArrayKeys /\ Len(flt[key]) = 0)

hasActiveFilters_EmptyArrayCounts(flt) ==
    \E key \in DOMAIN flt :
        /\ key \notin MODIFIER_KEYS
        /\ ~(key \in BoolKeys /\ flt[key] = FALSE)

hasActiveFilters(flt) ==
    \E key \in DOMAIN flt :
        /\ key \notin MODIFIER_KEYS
        /\ ~(key \in BoolKeys /\ flt[key] = FALSE)
        /\ ~(key \in ArrayKeys /\ Len(flt[key]) = 0)

----------------------------------------------------------------------------
(* filters.ts: predicate *)

\* Variant of genreNamesOf: the record's genre names not lower-cased
genreNamesOf_NoLowercase(node) ==
    IF Has(node, "genres")
    THEN [i \in DOMAIN node.genres |-> node.genres[i].name]
    ELSE <<>>

genreNamesOf(node) ==
    IF Has(node, "genres")
    THEN [i \in DOMAIN node.genres |-> ToLowerCase(node.genres[i].name)]
    ELSE <<>>

\* Variant of GenresIncludeOk: every/some swapped between the modes
GenresIncludeOk_ModesSwapped(node, flt) ==
    IF Has(flt, "genres_include") /\ Len(flt.genres_include) > 0
    THEN LET wanted == MapLower(flt.genres_include)
             mode == IF Has(flt, "genre_mode") THEN flt.genre_mode ELSE "or"
         IN IF mode = "and"
            THEN \E i \in DOMAIN wanted : Includes(genreNamesOf(node), wanted[i])
            ELSE \A i \in DOMAIN wanted : Includes(genreNamesOf(node), wanted[i])
    ELSE TRUE

GenresIncludeOk(node, flt) ==
    IF Has(flt, "genres_include") /\ Len(flt.genres_include) > 0
    THEN LET wanted == MapLower(flt.genres_include)
             mode == IF Has(flt, "genre_mode") THEN flt.genre_mode ELSE "or"
         IN IF mode = "and"
            THEN \A i \in DOMAIN wanted : Includes(genreNamesOf(node), wanted[i])
            ELSE \E i \in DOMAIN wanted : Includes(genreNamesOf(node), wanted[i])
    ELSE TRUE

GenresExcludeOk(node, flt) ==
    IF Has(flt, "genres_exclude") /\ Len(flt.genres_exclude) > 0
    THEN LET excluded == MapLower(flt.genres_exclude)
         IN ~(\E i \in DOMAIN excluded : Includes(genreNamesOf(node), excluded[i]))
    ELSE TRUE

\* Variant of MinScoreOk: the threshold tested for truthiness, so that
\* min_score = 0 skips the check
MinScoreOk_Truthy(node, flt) ==
    IF Has(flt, "min_score") /\ flt.min_score # 0
    THEN ~(~Has(node, "mean") \/ node.mean < flt.min_score)
    ELSE TRUE

MinScoreOk(node, flt) ==
    IF Has(flt, "min_score")
    THEN ~(~Has(node, "mean") \/ node.mean < flt.min_score)
    ELSE TRUE

MinMembersOk(node, flt) ==
    IF Has(flt, "min_members")
    THEN ~((IF Has(node, "num_list_users") THEN node.num_list_users ELSE 0)
              < flt.min_members)
    ELSE TRUE

MediaTypeOk(node, flt) ==
    IF Has(flt, "media_type") /\ Len(flt.media_type) > 0
    THEN ~(~Has(node, "media_type") \/ node.media_type = ""
             \/ ~Includes(flt.media_type, node.media_type))
    ELSE TRUE

\* Variant of StatusOk: a record without a status passes
StatusOk_MissingPasses(node, flt) ==
    IF Has(flt, "status") /\ flt.status # ""
    THEN ~(Has(node, "status") /\ node.status # flt.status)
    ELSE TRUE

StatusOk(node, flt) ==
    IF Has(flt, "status") /\ flt.status # ""
    THEN Has(node, "status") /\ node.status = flt.status
    ELSE TRUE

SourceOk(node, flt) ==
    IF Has(flt, "source") /\ Len(flt.source) > 0
    THEN ~(~Has(node, "source") \/ node.source = ""
             \/ ~Includes(flt.source, node.source))
    ELSE TRUE

\* Variant of CurrentSeasonOk: the season compared, the year not
CurrentSeasonOk_SeasonOnly(node, flt, ctx) ==
    IF Has(flt, "current_season_only") /\ flt.current_season_only
       /\ DOMAIN ctx # {}
    THEN /\ Has(node, "start_season")
         /\ ~(node.start_season.season # ctx.queriedSeason)
    ELSE TRUE

CurrentSeasonOk(node, flt, ctx) ==
    IF Has(flt, "current_season_only") /\ flt.current_season_only
       /\ DOMAIN ctx # {}
    THEN /\ Has(node, "start_season")
         /\ ~(node.start_season.year # ctx.queriedYear
                \/ node.start_season.season # ctx.queriedSeason)
    ELSE TRUE

matchesFilters(node, flt, ctx) ==
    /\ GenresIncludeOk(node, flt)
    /\ GenresExcludeOk(node, flt)
    /\ MinScoreOk(node, flt)
    /\ MinMembersOk(node, flt)
    /\ MediaTypeOk(node, flt)
    /\ StatusOk(node, flt)
    /\ SourceOk(node, flt)
    /\ CurrentSeasonOk(node, flt, ctx)

----------------------------------------------------------------------------
(* filters.ts: description builder.  A rendered entry `key=a,b` is kept as *)
(* its parts: the label and the joined values.                             *)

ArrLen(flt, key) == IF Has(flt, key) THEN Len(flt[key]) ELSE 0

buildActiveFilterDescriptions(flt) ==
       (IF ArrLen(flt, "genres_include") # 0
        THEN << [label |-> "genres",
                 mode |-> ToUpperCase(IF Has(flt, "genre_mode")
                                      THEN flt.genre_mode ELSE "or"),
                 joined |-> flt.genres_include] >>
        ELSE <<>>)
    \o (IF ArrLen(flt, "genres_exclude") # 0
        THEN << [label |-> "exclude_genres", joined |-> flt.genres_exclude] >>
        ELSE <<>>)
    \o (IF Has(flt, "min_score")
        THEN << [label |-> "min_score>=", num |-> flt.min_score] >>
        ELSE <<>>)
    \o (IF Has(flt, "min_members")
        THEN << [label |-> "min_members>=", num |-> flt.min_members] >>
        ELSE <<>>)
    \o (IF ArrLen(flt, "media_type") # 0
        THEN << [label |-> "media_type", joined |-> flt.media_type] >>
        ELSE <<>>)
    \o (IF Has(flt, "status") /\ flt.status # ""
        THEN << [label |-> "status", str |-> flt.status] >>
        ELSE <<>>)
    \o (IF ArrLen(flt, "source") # 0
        THEN << [label |-> "source", joined |-> flt.source] >>
        ELSE <<>>)
    \o (IF Has(flt, "current_season_only") /\ flt.current_season_only
        THEN << [label |-> "current_season_only"] >>
        ELSE <<>>)

----------------------------------------------------------------------------
(* The remote catalog.  Record i of the queried endpoint; optional         *)
(* attributes are absent for some records.                                 *)

GenresOfRecord(i) ==
    CASE i % 6 = 1 -> << [id |-> 1, name |-> "Action"] >>
      [] i % 6 = 2 -> << [id |-> 1, name |-> "Action"], [id |-> 22, name |-> "Romance"] >>
      [] i % 6 = 3 -> << [id |-> 4, name |-> "Comedy"] >>
      [] i % 6 = 4 -> << [id |-> 22, name |-> "ROMANCE"], [id |-> 4, name |-> "comedy"] >>
      [] OTHER -> <<>>

SeasonOfRecord(i) ==
    CASE (i \div 3) % 4 = 1 -> [year |-> 2024, season |-> "summer"]
      [] (i \div 3) % 4 = 2 -> [year |-> 2023, season |-> "summer"]
      [] OTHER -> [year |-> 2024, season |-> "spring"]

Node(i) ==
    [id |-> i]
    @@ Opt(i % 6 # 0, [genres |-> GenresOfRecord(i)])
    @@ Opt(i % 7 # 0, [mean |-> 60 + ((i * 13) % 35)])
    @@ Opt(i % 5 # 0, [num_list_users |-> (i % 5) * 1000])
    @@ Opt(i % 4 # 0, [media_type |-> CASE i % 4 = 1 -> "tv"
                                        [] i % 4 = 2 -> "movie"
                                        [] OTHER -> "ova"])
    @@ Opt(i % 3 # 0, [status |-> IF i % 3 = 1 THEN "finished_airing"
                                  ELSE "currently_airing"])
    @@ Opt((i \div 2) % 3 # 0, [source |-> IF (i \div 2) % 3 = 1 THEN "manga"
                                           ELSE "original"])
    @@ Opt((i \div 3) % 4 # 0, [start_season |-> SeasonOfRecord(i)])

\* Record i of the manga endpoints (MalMangaNode: no source, no
\* start_season; manga media types and statuses)
MangaNode(i) ==
    [id |-> i]
    @@ Opt(i % 6 # 0, [genres |-> GenresOfRecord(i)])
    @@ Opt(i % 7 # 0, [mean |-> 60 + ((i * 13) % 35)])
    @@ Opt(i % 5 # 0, [num_list_users |-> (i % 5) * 1000])
    @@ Opt(i % 4 # 0, [media_type |-> CASE i % 4 = 1 -> "manga"
                                        [] i % 4 = 2 -> "novel"
                                        [] OTHER -> "one_shot"])
    @@ Opt(i % 3 # 0, [status |-> IF i % 3 = 1 THEN "finished"
                                  ELSE "currently_publishing"])

\* The records the anime and the manga endpoints hold, by position
AnimeCatalog == [i \in 0 .. MaxCatalog |-> Node(i)]

MangaCatalog == [i \in 0 .. MaxCatalog |-> MangaNode(i)]

AnimeListTools == {"mal_search_anime", "mal_anime_ranking", "mal_anime_seasonal"}

MangaListTools == {"mal_search_manga", "mal_manga_ranking"}

ListTools == AnimeListTools \cup MangaListTools

RankingTools == {"mal_anime_ranking", "mal_manga_ranking"}

DetailTools == {"mal_get_anime_details", "mal_get_manga_details"}

\* A list item; the ranking endpoints annotate each node with its rank.
ListItem(t, i) ==
    LET node == IF t \in MangaListTools THEN MangaCatalog[i] ELSE AnimeCatalog[i]
    IN IF t \in RankingTools
       THEN [node |-> node, ranking |-> [rank |-> i]]
       ELSE [node |-> node]

\* The page the remote serves for (limit, offset): the records at
\* positions [offset, offset + limit) of a catalog of n records.
RemotePage(t, n, limit, offset) ==
    [i \in 1 .. (IF offset >= n THEN 0 ELSE Min(limit, n - offset)) |->
        ListItem(t, offset + i)]

\* JavaScript truthiness of paging.next (a string or undefined)
Truthy(paging) == Has(paging, "next") /\ paging.next # ""

----------------------------------------------------------------------------
(* filters.ts: filteredFetch *)

FILTERED_PAGE_SIZE == 100

\* Variants of FetchLimit: always the overfetch window / always the
\* caller's limit
FetchLimit_AlwaysWindow(flt, limit) == FILTERED_PAGE_SIZE

FetchLimit_AlwaysRequested(flt, limit) == limit

\* The limit handed to the single fetchPage call of an invocation
FetchLimit(flt, limit) ==
    IF ~hasActiveFilters(flt) THEN limit ELSE FILTERED_PAGE_SIZE

\* The scan loop: push matches in arrival order, break once
\* matched.length >= requestedLimit
\* One iteration of `for (const item of result.data)`: nothing after the
\* break; otherwise push a match and break once requestedLimit is reached
ScanStep(acc, item, flt, limit, ctx) ==
    IF acc.broke THEN acc
    ELSE IF matchesFilters(item.node, flt, ctx)
         THEN LET pushed == Append(acc.matched, item)
              IN [matched |-> pushed, broke |-> Len(pushed) >= limit]
         ELSE acc

\* The iterations over data[lo .. hi] in order, split in halves to keep the
\* evaluation shallow
RECURSIVE ScanRange(_, _, _, _, _, _, _)
ScanRange(data, lo, hi, acc, flt, limit, ctx) ==
    IF lo > hi THEN acc
    ELSE IF lo = hi THEN ScanStep(acc, data[lo], flt, limit, ctx)
    ELSE LET mid == (lo + hi) \div 2
             left == ScanRange(data, lo, mid, acc, flt, limit, ctx)
         IN IF left.broke THEN left
            ELSE ScanRange(data, mid + 1, hi, left, flt, limit, ctx)

\* The loop of filteredFetch from record idx on, matched holding the
\* matches so far
ScanFrom(data, idx, matched, flt, limit, ctx) ==
    ScanRange(data, idx, Len(data), [matched |-> matched, broke |-> FALSE],
              flt, limit, ctx).matched

\* Variants of ScanWindow: no early stop / scan starting at the second
\* record
ScanWindow_NoBreak(data, flt, limit, ctx) ==
    SelectSeq(data, LAMBDA it : matchesFilters(it.node, flt, ctx))

ScanWindow_SkipFirst(data, flt, limit, ctx) ==
    ScanFrom(data, 2, <<>>, flt, limit, ctx)

ScanWindow(data, flt, limit, ctx) == ScanFrom(data, 1, <<>>, flt, limit, ctx)

\* Variants of hasMore: the indicator alone / any non-empty window
hasMore_IndicatorOnly(res) == Truthy(res.paging)

hasMore_NonEmptyWindow(res) == Truthy(res.paging) /\ Len(res.data) >= 1

hasMore(res) == Truthy(res.paging) /\ Len(res.data) >= FILTERED_PAGE_SIZE

\* Variant of UnfilteredReturn: the full-window rule applied to the
\* pass-through path too
UnfilteredReturn_WindowRule(res) ==
    [items |-> res.data,
     meta |-> [totalScanned |-> Len(res.data),
               totalMatched |-> Len(res.data),
               pagesScanned |-> 1,
               activeFilters |-> <<>>,
               hasMorePages |-> hasMore(res)]]

UnfilteredReturn(res) ==
    [items |-> res.data,
     meta |-> [totalScanned |-> Len(res.data),
               totalMatched |-> Len(res.data),
               pagesScanned |-> 1,
               activeFilters |-> <<>>,
               hasMorePages |-> Truthy(res.paging)]]

\* Variant of FilteredReturn: nextOffset resumes after the matches returned
FilteredReturn_NextAfterMatches(res, flt, limit, offset, ctx) ==
    LET matched == ScanWindow(res.data, flt, limit, ctx)
    IN [items |-> Slice0(matched, limit),
        meta |-> [totalScanned |-> Len(res.data),
                  totalMatched |-> Len(matched),
                  pagesScanned |-> 1,
                  activeFilters |-> buildActiveFilterDescriptions(flt),
                  hasMorePages |-> hasMore(res)]
                 @@ Opt(hasMore(res), [nextOffset |-> offset + Len(matched)])]

FilteredReturn(res, flt, limit, offset, ctx) ==
    LET matched == ScanWindow(res.data, flt, limit, ctx)
    IN [items |-> Slice0(matched, limit),
        meta |-> [totalScanned |-> Len(res.data),
                  totalMatched |-> Len(matched),
                  pagesScanned |-> 1,
                  activeFilters |-> buildActiveFilterDescriptions(flt),
                  hasMorePages |-> hasMore(res)]
                 @@ Opt(hasMore(res), [nextOffset |-> offset + Len(res.data)])]

filteredFetchReturn(res, flt, limit, offset, ctx) ==
    IF ~hasActiveFilters(flt)
    THEN UnfilteredReturn(res)
    ELSE FilteredReturn(res, flt, limit, offset, ctx)

\* Variant of filteredFetchRejection: the failure swallowed into a
\* successful (empty) return
filteredFetchRejection_Swallowed(reason) == [settled |-> "returned", error |-> ""]

\* A rejected fetchPage promise is awaited without a try/catch: the
\* rejection becomes the rejection of filteredFetch.
filteredFetchRejection(reason) == [settled |-> "threw", error |-> reason]

----------------------------------------------------------------------------
(* format.ts: the number printed in front of each listed item *)

\* formatAnimeList: `${i + 1}. `
formatAnimeListPrefixes(its) == [k \in DOMAIN its |-> k]

\* Variant of formatAnimeRankingPrefixes: numbered by position, as the
\* plain list is
formatAnimeRankingPrefixes_ByPosition(its) == formatAnimeListPrefixes(its)

\* formatAnimeRanking: `#${item.ranking.rank} `
formatAnimeRankingPrefixes(its) == [k \in DOMAIN its |-> its[k].ranking.rank]

----------------------------------------------------------------------------
(* format.ts: the text of a list.  A text is kept as the sequence of its   *)
(* segments, each a record of the values interpolated into it.             *)

\* Variant of paginationInfo: the line is printed whatever paging holds
paginationInfo_Always(paging) ==
    << [kind |-> "pagination",
        text |-> "More results available (increase offset)."] >>

\* paginationInfo: one line when paging.next is truthy
paginationInfo(paging) ==
    IF Truthy(paging)
    THEN << [kind |-> "pagination",
             text |-> "More results available (increase offset)."] >>
    ELSE <<>>

IdsOf(its) == [k \in DOMAIN its |-> its[k].node.id]

\* Variant of formatAnimeList: an empty list is rendered as a list
formatAnimeList_NoEmptyCase(its, paging) ==
    << [kind |-> "list", prefixes |-> formatAnimeListPrefixes(its),
        ids |-> IdsOf(its)] >> \o paginationInfo(paging)

formatAnimeList(its, paging) ==
    IF Len(its) = 0
    THEN << [kind |-> "empty", text |-> "No anime found."] >>
    ELSE << [kind |-> "list", prefixes |-> formatAnimeListPrefixes(its),
             ids |-> IdsOf(its)] >> \o paginationInfo(paging)

formatAnimeRanking(its, paging) ==
    IF Len(its) = 0
    THEN << [kind |-> "empty", text |-> "No anime found."] >>
    ELSE << [kind |-> "list", prefixes |-> formatAnimeRankingPrefixes(its),
             ids |-> IdsOf(its)] >> \o paginationInfo(paging)

\* formatStatus: "unknown" when missing, underscores replaced by spaces
formatStatus(node) ==
    IF ~Has(node, "status") \/ node.status = "" THEN "unknown"
    ELSE CASE node.status = "finished_airing" -> "finished airing"
           [] node.status = "currently_airing" -> "currently airing"
           [] node.status = "not_yet_aired" -> "not yet aired"
           [] node.status = "currently_publishing" -> "currently publishing"
           [] node.status = "not_yet_published" -> "not yet published"
           [] OTHER -> node.status

malUrl(type, id) == "https://myanimelist.net/" \o type \o "/" \o ToString(id)

\* formatAnimeDetails: the MAL ID line, the type and the status
formatAnimeDetails(anime) ==
    << [kind |-> "details", id |-> anime.id, url |-> malUrl("anime", anime.id),
        type |-> IF Has(anime, "media_type") THEN anime.media_type ELSE "unknown",
        status |-> formatStatus(anime)] >>

formatMangaList(its, paging) ==
    IF Len(its) = 0
    THEN << [kind |-> "empty", text |-> "No manga found."] >>
    ELSE << [kind |-> "list", prefixes |-> [k \in DOMAIN its |-> k],
             ids |-> IdsOf(its)] >> \o paginationInfo(paging)

formatMangaRanking(its, paging) ==
    IF Len(its) = 0
    THEN << [kind |-> "empty", text |-> "No manga found."] >>
    ELSE << [kind |-> "list",
             prefixes |-> [k \in DOMAIN its |-> its[k].ranking.rank],
             ids |-> IdsOf(its)] >> \o paginationInfo(paging)

formatMangaDetails(manga) ==
    << [kind |-> "details", id |-> manga.id, url |-> malUrl("manga", manga.id),
        type |-> IF Has(manga, "media_type") THEN manga.media_type ELSE "unknown",
        status |-> formatStatus(manga)] >>

\* Variant of formatFilterMeta: the count shown is the number scanned
formatFilterMeta_ShowsScanned(m) ==
    << [kind |-> "filterMeta",
        showing |-> m.totalScanned,
        scanned |-> m.totalScanned,
        pages |-> IF m.pagesScanned > 1
                  THEN ToString(m.pagesScanned) \o " pages" ELSE "1 page",
        filters |-> m.activeFilters,
        more |-> IF m.hasMorePages
                 THEN " | More results may exist beyond scanned pages."
                 ELSE ""] >>

\* formatFilterMeta: "Showing N results (filtered from M scanned, P) |
\* Filters: ..." and the optional " | More results may exist ..." tail
formatFilterMeta(m) ==
    << [kind |-> "filterMeta",
        showing |-> m.totalMatched,
        scanned |-> m.totalScanned,
        pages |-> IF m.pagesScanned > 1
                  THEN ToString(m.pagesScanned) \o " pages" ELSE "1 page",
        filters |-> m.activeFilters,
        more |-> IF m.hasMorePages
                 THEN " | More results may exist beyond scanned pages."
                 ELSE ""] >>

----------------------------------------------------------------------------
(* client.ts: MalApiClient.request and the endpoint methods *)

\* The message of the Error thrown for a reply that is not ok
MalApiErrorMessage(reply) ==
    "MAL API error " \o ToString(reply.status) \o " " \o reply.statusText
        \o ": " \o reply.body

\* The request an endpoint method sends for a list
clientRequest(t, y, se, limit, offset) ==
    CASE t = "mal_search_anime" ->
            [path |-> "/anime", limit |-> limit, offset |-> offset]
      [] t = "mal_anime_ranking" ->
            [path |-> "/anime/ranking", limit |-> limit, offset |-> offset]
      [] t = "mal_anime_seasonal" ->
            [path |-> "/anime/season", year |-> y, season |-> se,
             limit |-> limit, offset |-> offset]
      [] t = "mal_search_manga" ->
            [path |-> "/manga", limit |-> limit, offset |-> offset]
      [] t = "mal_manga_ranking" ->
            [path |-> "/manga/ranking", limit |-> limit, offset |-> offset]

\* getAnimeDetails / getMangaDetails: the id is part of the path
detailsRequest(t, id) ==
    [path |-> (IF t = "mal_get_manga_details" THEN "/manga/" ELSE "/anime/")
                  \o ToString(id)]

----------------------------------------------------------------------------
(* index.ts: toolResult, handleToolError, getCurrentSeason *)

toolResult(txt, isError) ==
    [content |-> txt] @@ Opt(isError, [isError |-> TRUE])

\* handleToolError: the text of fn() on success, "Error: <message>" with
\* isError when fn() rejects
handleToolError(settled, txt, message) ==
    IF settled = "returned"
    THEN toolResult(txt, FALSE)
    ELSE toolResult(<< [kind |-> "error", text |-> "Error: " \o message] >>, TRUE)

\* Variant of getCurrentSeason: September counted as fall
getCurrentSeason_EarlyFall(clock) ==
    [year |-> clock.year,
     season |-> IF clock.month <= 3 THEN "winter"
                ELSE IF clock.month <= 6 THEN "spring"
                ELSE IF clock.month < 9 THEN "summer"
                ELSE "fall"]

getCurrentSeason(clock) ==
    [year |-> clock.year,
     season |-> IF clock.month <= 3 THEN "winter"
                ELSE IF clock.month <= 6 THEN "spring"
                ELSE IF clock.month <= 9 THEN "summer"
                ELSE "fall"]

\* The text a list-tool handler builds from what filteredFetch returned
listToolText(t, its, m, ctx) ==
    LET paging == Opt(m.hasMorePages, [next |-> "yes"])
        body == CASE t = "mal_anime_ranking" -> formatAnimeRanking(its, paging)
                  [] t = "mal_search_manga" -> formatMangaList(its, paging)
                  [] t = "mal_manga_ranking" -> formatMangaRanking(its, paging)
                  [] OTHER -> formatAnimeList(its, paging)
        header == IF t = "mal_anime_seasonal"
                  THEN << [kind |-> "header", season |-> ctx.queriedSeason,
                           year |-> ctx.queriedYear] >>
                  ELSE <<>>
    IN header
         \o (IF Len(m.activeFilters) > 0 THEN formatFilterMeta(m) ELSE <<>>)
         \o body

\* The text a details handler builds from the node the client resolved with
detailsToolText(t, node) ==
    IF t = "mal_get_manga_details"
    THEN formatMangaDetails(node)
    ELSE formatAnimeDetails(node)

----------------------------------------------------------------------------
(* index.ts: the tool handlers.  A tool call is a record of the values     *)
(* its activations hold; each operator below is one stretch of code that   *)
(* runs without returning to the event loop.                               *)

ANIME_FILTER_KEYS ==
    {"genres_include", "genres_exclude", "genre_mode", "min_score",
     "min_members", "media_type", "status", "source"}

SEASONAL_FILTER_KEYS == ANIME_FILTER_KEYS \cup {"current_season_only"}

MANGA_FILTER_KEYS ==
    {"genres_include", "genres_exclude", "genre_mode", "min_score",
     "min_members", "media_type", "status"}

\* pickFilters: the defined arguments among the filter keys
pickFilters(args, filterKeys) ==
    [key \in DOMAIN args \cap filterKeys |-> args[key]]

\* No call: nothing is held
IdleCall ==
    [pc |-> "idle", tool |-> "", filters |-> Undefined, requestedLimit |-> 0,
     initialOffset |-> 0, seasonContext |-> Undefined, calls |-> <<>>,
     result |-> Undefined, items |-> <<>>, meta |-> Undefined,
     fetchError |-> "", error |-> "", now |-> Undefined,
     toolArgs |-> Undefined, httpRequest |-> Undefined,
     httpResponse |-> Undefined, text |-> <<>>, response |-> Undefined]

\* filteredFetch up to its await: destructure the options, issue fetchPage
filteredFetchCall(t, flt, limit, offset, ctx) ==
    [IdleCall EXCEPT !.pc = "awaiting",
                     !.tool = t,
                     !.filters = flt,
                     !.requestedLimit = limit,
                     !.initialOffset = offset,
                     !.seasonContext = ctx,
                     !.calls = << [limit |-> FetchLimit(flt, limit),
                                   offset |-> offset] >>]

\* A list handler up to the await of fetch inside the client: the filters
\* picked from the arguments, the request of the fetchPage closure sent
listHandlerCall(t, filterKeys, rest, limit, offset) ==
    LET flt == pickFilters(rest, filterKeys)
    IN [filteredFetchCall(t, flt, limit, offset, Undefined) EXCEPT
            !.httpRequest = clientRequest(t, 0, "", FetchLimit(flt, limit), offset),
            !.toolArgs = rest @@ [limit |-> limit, offset |-> offset]]

mal_search_anime(rest, limit, offset) ==
    listHandlerCall("mal_search_anime", ANIME_FILTER_KEYS, rest, limit, offset)

mal_anime_ranking(rest, limit, offset) ==
    listHandlerCall("mal_anime_ranking", ANIME_FILTER_KEYS, rest, limit, offset)

mal_search_manga(rest, limit, offset) ==
    listHandlerCall("mal_search_manga", MANGA_FILTER_KEYS, rest, limit, offset)

mal_manga_ranking(rest, limit, offset) ==
    listHandlerCall("mal_manga_ranking", MANGA_FILTER_KEYS, rest, limit, offset)

\* year ?? current.year, season ?? current.season: the same y and s go to
\* the client call and to seasonContext
mal_anime_seasonal(clock, q, rest, limit, offset) ==
    LET current == getCurrentSeason(clock)
        y == IF Has(q, "year") THEN q.year ELSE current.year
        se == IF Has(q, "season") THEN q.season ELSE current.season
        flt == pickFilters(rest, SEASONAL_FILTER_KEYS)
    IN [filteredFetchCall("mal_anime_seasonal", flt, limit, offset,
                          [queriedYear |-> y, queriedSeason |-> se]) EXCEPT
            !.httpRequest = clientRequest("mal_anime_seasonal", y, se,
                                          FetchLimit(flt, limit), offset),
            !.toolArgs = q @@ rest @@ [limit |-> limit, offset |-> offset],
            !.now = clock]

\* The details handlers call the client directly
mal_get_anime_details(anime_id) ==
    [IdleCall EXCEPT !.pc = "awaiting",
                     !.tool = "mal_get_anime_details",
                     !.toolArgs = [anime_id |-> anime_id],
                     !.httpRequest = detailsRequest("mal_get_anime_details", anime_id)]

mal_get_manga_details(manga_id) ==
    [IdleCall EXCEPT !.pc = "awaiting",
                     !.tool = "mal_get_manga_details",
                     !.toolArgs = [manga_id |-> manga_id],
                     !.httpRequest = detailsRequest("mal_get_manga_details", manga_id)]

\* request(): fetch resolved with a reply; response.ok is read and the
\* body is asked for (response.json() or response.text())
fetchResolves(c, reply) ==
    [c EXCEPT !.pc = "replied",
              !.httpResponse = [ok |-> reply.ok, status |-> reply.status,
                                statusText |-> reply.statusText]]

\* fetch rejected: there is no reply, request() rejects with the reason
fetchRejects(c, reason) ==
    [c EXCEPT !.pc = "rejected", !.fetchError = reason]

\* response.json() resolved: the client's promise resolves with the value
jsonResolves(c, value) ==
    [c EXCEPT !.pc = "parsed", !.result = value]

\* response.json() rejected: the body of the ok reply is not JSON
jsonRejects(c, body, message) ==
    [c EXCEPT !.pc = "rejected",
              !.httpResponse = @ @@ [body |-> body],
              !.fetchError = message]

\* response.text() resolved for a reply that is not ok: request() throws
textResolves(c, body) ==
    [c EXCEPT !.pc = "rejected",
              !.httpResponse = @ @@ [body |-> body],
              !.fetchError = MalApiErrorMessage(c.httpResponse @@ [body |-> body])]

\* The read of the reply's body failed (response.text() of a reply that is
\* not ok, response.json() of an ok reply): request() rejects with the
\* reason of the read, and the body is never known
bodyReadRejects(c, reason) ==
    [c EXCEPT !.pc = "rejected", !.fetchError = reason]

\* filteredFetch after its await: the return when fetchPage resolved, the
\* rejection when it rejected
filteredFetchResumes(c) ==
    IF c.pc = "parsed"
    THEN LET ret == filteredFetchReturn(c.result, c.filters, c.requestedLimit,
                                        c.initialOffset, c.seasonContext)
         IN [c EXCEPT !.pc = "returned", !.items = ret.items, !.meta = ret.meta]
    ELSE LET rejection == filteredFetchRejection(c.fetchError)
         IN [c EXCEPT !.pc = rejection.settled, !.error = rejection.error]

\* fn() after its await: the text is built and fn() resolves with it
handlerResumes(c) ==
    [c EXCEPT !.pc = "formatted",
              !.text = IF c.tool \in DetailTools
                       THEN detailsToolText(c.tool, c.result)
                       ELSE listToolText(c.tool, c.items, c.meta, c.seasonContext)]

\* handleToolError after `await fn()`: the result, or the catch branch
handleToolErrorResumes(c) ==
    [c EXCEPT !.pc = "answered",
              !.response =
                  IF c.pc = "formatted"
                  THEN handleToolError("returned", c.text, "")
                  ELSE handleToolError("threw", <<>>,
                                       IF c.tool \in DetailTools
                                       THEN c.fetchError ELSE c.error)]

\* The promise filteredFetch awaits has settled
AtFilteredFetchAwait(c) ==
    c.tool \in ListTools /\ c.pc \in {"parsed", "rejected"}

\* The promise fn() awaits has resolved: filteredFetch for a list tool, the
\* client for a details tool
AtHandlerAwait(c) ==
    \/ c.pc = "returned"
    \/ c.pc = "parsed" /\ c.tool \in DetailTools

\* fn() has settled: resolved with its text, or rejected because what it
\* awaited rejected
AtHandleToolErrorAwait(c) ==
    \/ c.pc \in {"formatted", "threw"}
    \/ c.pc = "rejected" /\ c.tool \in DetailTools

----------------------------------------------------------------------------
(* Inputs of the tools and replies of the remote *)

\* limit: z.number().int().min(1).max(100)
MaxLimit == 100

Limits == {1, 5, 10, MaxLimit}

Offsets == {0, 12, FILTERED_PAGE_SIZE}

\* Sizes of the remote catalog, around the page boundaries
CatalogSizes ==
    {n \in 0 .. MaxCatalog : n % FILTERED_PAGE_SIZE \in {0, 40}}
        \cup {MaxCatalog}

\* Filter arguments as the input schema delivers them (genre_mode always
\* carries its default)
AnimeFilterArgs ==
    { [genre_mode |-> "or"],
      [genre_mode |-> "and"],
      [genre_mode |-> "or", genres_include |-> <<>>, media_type |-> <<>>],
      [genre_mode |-> "or", min_score |-> 80],
      [genre_mode |-> "or", min_score |-> 0],
      [genre_mode |-> "or", min_score |-> 100],
      [genre_mode |-> "or", genres_include |-> <<"action", "Romance">>],
      [genre_mode |-> "and", genres_include |-> <<"Action", "romance">>],
      [genre_mode |-> "or", genres_exclude |-> <<"COMEDY">>, min_members |-> 2000],
      [genre_mode |-> "or", media_type |-> <<"tv", "movie">>],
      [genre_mode |-> "or", status |-> "finished_airing"],
      [genre_mode |-> "or", source |-> <<"manga">>, min_score |-> 75] }

SeasonalFilterArgs ==
    { [genre_mode |-> "or", current_season_only |-> FALSE],
      [genre_mode |-> "or", current_season_only |-> TRUE],
      [genre_mode |-> "or", current_season_only |-> FALSE, min_score |-> 80],
      [genre_mode |-> "and", current_season_only |-> TRUE,
       genres_include |-> <<"Action">>] }

MangaFilterArgs ==
    { [genre_mode |-> "or"],
      [genre_mode |-> "or", media_type |-> <<"manga", "novel">>],
      [genre_mode |-> "or", status |-> "finished", min_score |-> 100] }

\* year and season are optional arguments
SeasonalQueries ==
    { Undefined, [year |-> 2023], [season |-> "summer"],
      [year |-> 2023, season |-> "summer"] }

\* What new Date() may give: every month of one year
Clock == { [year |-> 2024, month |-> m] : m \in 1 .. 12 }

SeasonalLimits == {5}

SeasonalOffsets == {0}

MangaLimits == {5}

MangaOffsets == {0}

\* anime_id, manga_id: z.number().int().positive()
DetailIds == {5}

\* What the remote may put in paging: no next link, an empty one, or a link
Pagings == { Undefined, [next |-> ""], [next |-> "https://api.myanimelist.net/v2/next"] }

OkReply == [ok |-> TRUE, status |-> 200, statusText |-> "OK"]

\* Replies of the remote that are not ok
NonOkReplies ==
    { [ok |-> FALSE, status |-> 500, statusText |-> "Internal Server Error",
       body |-> "oops"],
      [ok |-> FALSE, status |-> 404, statusText |-> "Not Found", body |-> ""] }

\* Bodies of an ok reply that response.json() cannot parse, with the
\* message of the SyntaxError it rejects with
UnparsableBodies ==
    { [body |-> "<html>502 Bad Gateway</html>",
       message |-> "Unexpected token '<', \"<html>502 \"... is not valid JSON"] }

\* Reasons fetch itself rejects with
NetworkErrors == {"fetch failed"}

\* Reasons the read of a reply's body rejects with once fetch has resolved
\* (the body stream breaks)
BodyReadErrors == {"terminated"}

\* Every reason the client's promise may reject with
FetchErrors ==
    NetworkErrors
        \cup { MalApiErrorMessage(r) : r \in NonOkReplies }
        \cup { b.message : b \in UnparsableBodies }
        \cup BodyReadErrors

\* The JSON values an endpoint may answer the call with: a page of the list
\* at the requested position, or the node of the requested id when the
\* catalog holds it
JsonBodies(c, n) ==
    IF c.tool \in DetailTools
    THEN LET id == IF c.tool = "mal_get_manga_details"
                   THEN c.toolArgs.manga_id ELSE c.toolArgs.anime_id
         IN IF id > n THEN {}
            ELSE IF c.tool = "mal_get_manga_details"
                 THEN {MangaCatalog[id]} ELSE {AnimeCatalog[id]}
    ELSE LET call == c.calls[Len(c.calls)]
         IN { [data |-> RemotePage(c.tool, n, call.limit, call.offset),
               paging |-> paging] : paging \in Pagings }

----------------------------------------------------------------------------
(* A client that waits for the result of each tool call before it makes   *)
(* the next one: one call at a time, followed from the request to the      *)
(* result through every point where the code returns to the event loop.    *)
(* ConcSpec below is the client that has several calls in flight.          *)

Call ==
    [pc |-> pc, tool |-> tool, filters |-> filters,
     requestedLimit |-> requestedLimit, initialOffset |-> initialOffset,
     seasonContext |-> seasonContext, calls |-> calls, result |-> result,
     items |-> items, meta |-> meta, fetchError |-> fetchError,
     error |-> error, now |-> now, toolArgs |-> toolArgs,
     httpRequest |-> httpRequest, httpResponse |-> httpResponse,
     text |-> text, response |-> response]

CallIs(c) ==
    /\ pc = c.pc
    /\ tool = c.tool
    /\ filters = c.filters
    /\ requestedLimit = c.requestedLimit
    /\ initialOffset = c.initialOffset
    /\ seasonContext = c.seasonContext
    /\ calls = c.calls
    /\ result = c.result
    /\ items = c.items
    /\ meta = c.meta
    /\ fetchError = c.fetchError
    /\ error = c.error
    /\ now = c.now
    /\ toolArgs = c.toolArgs
    /\ httpRequest = c.httpRequest
    /\ httpResponse = c.httpResponse
    /\ text = c.text
    /\ response = c.response

CallBecomes(c) ==
    /\ pc' = c.pc
    /\ tool' = c.tool
    /\ filters' = c.filters
    /\ requestedLimit' = c.requestedLimit
    /\ initialOffset' = c.initialOffset
    /\ seasonContext' = c.seasonContext
    /\ calls' = c.calls
    /\ result' = c.result
    /\ items' = c.items
    /\ meta' = c.meta
    /\ fetchError' = c.fetchError
    /\ error' = c.error
    /\ now' = c.now
    /\ toolArgs' = c.toolArgs
    /\ httpRequest' = c.httpRequest
    /\ httpResponse' = c.httpResponse
    /\ text' = c.text
    /\ response' = c.response

Init ==
    /\ catalogSize \in CatalogSizes
    /\ CallIs(IdleCall)
    /\ caller = Undefined
    /\ chain = <<>>
    /\ probe = Undefined
    /\ verdict = Undefined
    /\ inflight = Undefined

SearchAnime ==
    /\ pc = "idle"
    /\ \E rest \in AnimeFilterArgs, limit \in Limits, offset \in Offsets :
        CallBecomes(mal_search_anime(rest, limit, offset))
    /\ UNCHANGED <<catalogSize, auxVars>>

GetAnimeDetails ==
    /\ pc = "idle"
    /\ \E anime_id \in DetailIds :
        CallBecomes(mal_get_anime_details(anime_id))
    /\ UNCHANGED <<catalogSize, auxVars>>

AnimeRanking ==
    /\ pc = "idle"
    /\ \E rest \in AnimeFilterArgs, limit \in Limits, offset \in Offsets :
        CallBecomes(mal_anime_ranking(rest, limit, offset))
    /\ UNCHANGED <<catalogSize, auxVars>>

AnimeSeasonal ==
    /\ pc = "idle"
    /\ \E clock \in Clock, q \in SeasonalQueries, rest \in SeasonalFilterArgs,
          limit \in SeasonalLimits, offset \in SeasonalOffsets :
        CallBecomes(mal_anime_seasonal(clock, q, rest, limit, offset))
    /\ UNCHANGED <<catalogSize, auxVars>>

SearchManga ==
    /\ pc = "idle"
    /\ \E rest \in MangaFilterArgs, limit \in MangaLimits, offset \in MangaOffsets :
        CallBecomes(mal_search_manga(rest, limit, offset))
    /\ UNCHANGED <<catalogSize, auxVars>>

GetMangaDetails ==
    /\ pc = "idle"
    /\ \E manga_id \in DetailIds :
        CallBecomes(mal_get_manga_details(manga_id))
    /\ UNCHANGED <<catalogSize, auxVars>>

MangaRanking ==
    /\ pc = "idle"
    /\ \E rest \in MangaFilterArgs, limit \in MangaLimits, offset \in MangaOffsets :
        CallBecomes(mal_manga_ranking(rest, limit, offset))
    /\ UNCHANGED <<catalogSize, auxVars>>

\* The awaited fetch resolves with the remote's reply
FetchResolves ==
    /\ pc = "awaiting"
    /\ \E reply \in {OkReply} \cup NonOkReplies :
        CallBecomes(fetchResolves(Call, reply))
    /\ UNCHANGED <<catalogSize, auxVars>>

\* The awaited fetch rejects
FetchRejects ==
    /\ pc = "awaiting"
    /\ \E reason \in NetworkErrors :
        CallBecomes(fetchRejects(Call, reason))
    /\ UNCHANGED <<catalogSize, auxVars>>

\* The body of an ok reply arrives and parses
JsonResolves ==
    /\ pc = "replied"
    /\ httpResponse.ok
    /\ \E value \in JsonBodies(Call, catalogSize) :
        CallBecomes(jsonResolves(Call, value))
    /\ UNCHANGED <<catalogSize, auxVars>>

\* The body of an ok reply arrives and does not parse, or does not arrive
JsonRejects ==
    /\ pc = "replied"
    /\ httpResponse.ok
    /\ \/ \E b \in UnparsableBodies :
            CallBecomes(jsonRejects(Call, b.body, b.message))
       \/ \E reason \in BodyReadErrors :
            CallBecomes(bodyReadRejects(Call, reason))
    /\ UNCHANGED <<catalogSize, auxVars>>

\* The body of a reply that is not ok arrives
TextResolves ==
    /\ pc = "replied"
    /\ ~httpResponse.ok
    /\ \E r \in NonOkReplies :
        /\ r.status = httpResponse.status
        /\ CallBecomes(textResolves(Call, r.body))
    /\ UNCHANGED <<catalogSize, auxVars>>

\* The body of a reply that is not ok does not arrive
TextRejects ==
    /\ pc = "replied"
    /\ ~httpResponse.ok
    /\ \E reason \in BodyReadErrors :
        CallBecomes(bodyReadRejects(Call, reason))
    /\ UNCHANGED <<catalogSize, auxVars>>

\* The await of fetchPage inside filteredFetch settles
FilteredFetchResumes ==
    /\ AtFilteredFetchAwait(Call)
    /\ CallBecomes(filteredFetchResumes(Call))
    /\ UNCHANGED <<catalogSize, auxVars>>

\* The await inside fn() resolves: filteredFetch for a list tool, the
\* client for a details tool
HandlerResumes ==
    /\ AtHandlerAwait(Call)
    /\ CallBecomes(handlerResumes(Call))
    /\ UNCHANGED <<catalogSize, auxVars>>

\* `await fn()` inside handleToolError settles
HandleToolErrorResumes ==
    /\ AtHandleToolErrorAwait(Call)
    /\ CallBecomes(handleToolErrorResumes(Call))
    /\ UNCHANGED <<catalogSize, auxVars>>

\* The result is handed to the transport; nothing of the call remains
HandlerReturns ==
    /\ pc = "answered"
    /\ CallBecomes(IdleCall)
    /\ UNCHANGED <<catalogSize, auxVars>>

Next ==
    \/ SearchAnime
    \/ GetAnimeDetails
    \/ AnimeRanking
    \/ AnimeSeasonal
    \/ SearchManga
    \/ GetMangaDetails
    \/ MangaRanking
    \/ FetchResolves
    \/ FetchRejects
    \/ JsonResolves
    \/ JsonRejects
    \/ TextResolves
    \/ TextRejects
    \/ FilteredFetchResumes
    \/ HandlerResumes
    \/ HandleToolErrorResumes
    \/ HandlerReturns

Spec == Init /\ [][Next]_vars

----------------------------------------------------------------------------
(* The pure functions of filters.ts applied to inputs of their parameter   *)
(* types (Record<string, unknown>, FilterParams, FilterableNode,           *)
(* SeasonContext): one application per behaviour.                          *)

MaxProbeNode == 12

\* One-field filter objects
ProbeFields ==
    { [genres_include |-> <<>>],
      [genres_include |-> <<"action">>],
      [genres_include |-> <<"Action", "Romance">>],
      [genres_exclude |-> <<>>],
      [genres_exclude |-> <<"COMEDY">>],
      [genre_mode |-> "or"],
      [genre_mode |-> "and"],
      [min_score |-> 0],
      [min_score |-> 80],
      [min_members |-> 0],
      [min_members |-> 2000],
      [media_type |-> <<>>],
      [media_type |-> <<"tv", "movie">>],
      [status |-> ""],
      [status |-> "finished_airing"],
      [source |-> <<>>],
      [source |-> <<"manga">>],
      [current_season_only |-> FALSE],
      [current_season_only |-> TRUE] }

\* Filter objects of at most two fields
ProbeFilters ==
    { a @@ b : a \in ProbeFields \cup {Undefined},
               b \in ProbeFields \cup {Undefined} }

ProbeNodes == { Node(i) : i \in 0 .. MaxProbeNode }

ProbeContexts == { Undefined, [queriedYear |-> 2024, queriedSeason |-> "summer"] }

EvalInit ==
    /\ catalogSize = 0
    /\ CallIs(IdleCall)
    /\ caller = Undefined
    /\ chain = <<>>
    /\ inflight = Undefined
    /\ probe \in [filters : ProbeFilters, node : ProbeNodes, ctx : ProbeContexts]
    /\ verdict = Undefined

mainVars == <<catalogSize, callVars, caller, chain>>

NotApplied == DOMAIN verdict = {}

ApplyHasActiveFilters ==
    /\ NotApplied
    /\ verdict' = [fn |-> "hasActiveFilters",
                   active |-> hasActiveFilters(probe.filters)]
    /\ UNCHANGED <<mainVars, probe, inflight>>

ApplyMatchesFilters ==
    /\ NotApplied
    /\ verdict' = [fn |-> "matchesFilters",
                   matches |-> matchesFilters(probe.node, probe.filters, probe.ctx)]
    /\ UNCHANGED <<mainVars, probe, inflight>>

ApplyBuildActiveFilterDescriptions ==
    /\ NotApplied
    /\ verdict' = [fn |-> "buildActiveFilterDescriptions",
                   parts |-> buildActiveFilterDescriptions(probe.filters)]
    /\ UNCHANGED <<mainVars, probe, inflight>>

\* The same filter object with genre_mode set to m / without genre_mode
WithGenreMode(flt, m) == [genre_mode |-> m] @@ flt

WithoutGenreMode(flt) == [key \in DOMAIN flt \ {"genre_mode"} |-> flt[key]]

\* matchesFilters on the same record and spec under each genre_mode
ApplyMatchesFiltersPerMode ==
    /\ NotApplied
    /\ verdict' =
          [fn |-> "matchesFilters/genre_mode",
           whenAnd |-> matchesFilters(probe.node,
                                      WithGenreMode(probe.filters, "and"), probe.ctx),
           whenOr |-> matchesFilters(probe.node,
                                     WithGenreMode(probe.filters, "or"), probe.ctx),
           whenAbsent |-> matchesFilters(probe.node,
                                         WithoutGenreMode(probe.filters), probe.ctx)]
    /\ UNCHANGED <<mainVars, probe, inflight>>

\* Spellings of a genre name that differ only in letter case:
\* lower, upper, capitalised
CaseFamily(s) ==
    CASE s \in {"Action", "ACTION", "action"}    -> <<"action", "ACTION", "Action">>
      [] s \in {"Romance", "ROMANCE", "romance"} -> <<"romance", "ROMANCE", "Romance">>
      [] s \in {"Comedy", "COMEDY", "comedy"}    -> <<"comedy", "COMEDY", "Comedy">>
      [] OTHER -> <<s, s, s>>

CaseStyles == 1 .. 3

RecaseNames(seq, style) == [i \in DOMAIN seq |-> CaseFamily(seq[i])[style]]

RecaseNode(node, style) ==
    IF Has(node, "genres")
    THEN [node EXCEPT !.genres =
            [i \in DOMAIN node.genres |->
                [node.genres[i] EXCEPT !.name = CaseFamily(node.genres[i].name)[style]]]]
    ELSE node

RecaseFilters(flt, style) ==
    [key \in DOMAIN flt |->
        IF key \in {"genres_include", "genres_exclude"}
        THEN RecaseNames(flt[key], style)
        ELSE flt[key]]

\* matchesFilters on the inputs as given and on every re-spelling of the
\* record's and of the spec's genre names
ApplyMatchesFiltersRecased ==
    /\ NotApplied
    /\ verdict' =
          [fn |-> "matchesFilters/case",
           asGiven |-> matchesFilters(probe.node, probe.filters, probe.ctx),
           recased |-> [st \in CaseStyles \X CaseStyles |->
                          matchesFilters(RecaseNode(probe.node, st[1]),
                                         RecaseFilters(probe.filters, st[2]),
                                         probe.ctx)]]
    /\ UNCHANGED <<mainVars, probe, inflight>>

EvalNext ==
    \/ ApplyHasActiveFilters
    \/ ApplyMatchesFilters
    \/ ApplyBuildActiveFilterDescriptions
    \/ ApplyMatchesFiltersPerMode
    \/ ApplyMatchesFiltersRecased

EvalSpec == EvalInit /\ [][EvalNext]_vars

----------------------------------------------------------------------------
(* Several tool calls in flight at once.  The server starts a call while   *)
(* others wait for their fetch, and the continuations of the calls run in  *)
(* any order.  Each call keeps its arguments, its destructured options and *)
(* its locals in its own activations; the module holds no mutable state.   *)

NumInvocations == 2

Invocations == 1 .. NumInvocations

ConcCatalogSizes == {40}

\* The calls a client may have in flight
ConcCalls ==
    { mal_search_anime([genre_mode |-> "or", min_score |-> 80], 5, 0),
      mal_anime_ranking([genre_mode |-> "or"], 1, 0),
      mal_get_anime_details(5) }

\* Variant of LocalsOf: the options kept in one module-level slot, which
\* holds those of the first call in flight
LocalsOf_ModuleLevel(all, i) ==
    all[CHOOSE j \in DOMAIN all :
            /\ all[j].pc # "idle"
            /\ \A k \in DOMAIN all : all[k].pc # "idle" => j <= k]

\* The destructured options the continuation of invocation i reads: its own
LocalsOf(all, i) == all[i]

ConcInit ==
    /\ catalogSize \in ConcCatalogSizes
    /\ CallIs(IdleCall)
    /\ caller = Undefined
    /\ chain = <<>>
    /\ probe = Undefined
    /\ verdict = Undefined
    /\ inflight = [i \in Invocations |-> IdleCall]

\* Call i moves on; nothing else changes
ConcBecomes(i, c) ==
    /\ inflight' = [inflight EXCEPT ![i] = c]
    /\ UNCHANGED <<catalogSize, callVars, probe, verdict, caller, chain>>

ConcCall(i) ==
    /\ inflight[i].pc = "idle"
    /\ \E c \in ConcCalls : ConcBecomes(i, c)

ConcFetchResolves(i) ==
    /\ inflight[i].pc = "awaiting"
    /\ \E reply \in {OkReply} \cup NonOkReplies :
        ConcBecomes(i, fetchResolves(inflight[i], reply))

ConcFetchRejects(i) ==
    /\ inflight[i].pc = "awaiting"
    /\ \E reason \in NetworkErrors : ConcBecomes(i, fetchRejects(inflight[i], reason))

ConcJsonResolves(i) ==
    /\ inflight[i].pc = "replied"
    /\ inflight[i].httpResponse.ok
    /\ \E value \in JsonBodies(inflight[i], catalogSize) :
        ConcBecomes(i, jsonResolves(inflight[i], value))

ConcJsonRejects(i) ==
    /\ inflight[i].pc = "replied"
    /\ inflight[i].httpResponse.ok
    /\ \/ \E b \in UnparsableBodies :
            ConcBecomes(i, jsonRejects(inflight[i], b.body, b.message))
       \/ \E reason \in BodyReadErrors :
            ConcBecomes(i, bodyReadRejects(inflight[i], reason))

ConcTextResolves(i) ==
    /\ inflight[i].pc = "replied"
    /\ ~inflight[i].httpResponse.ok
    /\ \E r \in NonOkReplies :
        /\ r.status = inflight[i].httpResponse.status
        /\ ConcBecomes(i, textResolves(inflight[i], r.body))

ConcTextRejects(i) ==
    /\ inflight[i].pc = "replied"
    /\ ~inflight[i].httpResponse.ok
    /\ \E reason \in BodyReadErrors :
        ConcBecomes(i, bodyReadRejects(inflight[i], reason))

\* The continuation of filteredFetch reads the options and locals of its
\* own activation
ConcFilteredFetchResumes(i) ==
    /\ AtFilteredFetchAwait(inflight[i])
    /\ LET mine == LocalsOf(inflight, i)
       IN ConcBecomes(i, filteredFetchResumes(
              [inflight[i] EXCEPT !.filters = mine.filters,
                                  !.requestedLimit = mine.requestedLimit,
                                  !.initialOffset = mine.initialOffset,
                                  !.seasonContext = mine.seasonContext]))

ConcHandlerResumes(i) ==
    /\ AtHandlerAwait(inflight[i])
    /\ ConcBecomes(i, handlerResumes(inflight[i]))

ConcHandleToolErrorResumes(i) ==
    /\ AtHandleToolErrorAwait(inflight[i])
    /\ ConcBecomes(i, handleToolErrorResumes(inflight[i]))

ConcHandlerReturns(i) ==
    /\ inflight[i].pc = "answered"
    /\ ConcBecomes(i, IdleCall)

ConcNext ==
    \E i \in Invocations :
        \/ ConcCall(i)
        \/ ConcFetchResolves(i)
        \/ ConcFetchRejects(i)
        \/ ConcJsonResolves(i)
        \/ ConcJsonRejects(i)
        \/ ConcTextResolves(i)
        \/ ConcTextRejects(i)
        \/ ConcFilteredFetchResumes(i)
        \/ ConcHandlerResumes(i)
        \/ ConcHandleToolErrorResumes(i)
        \/ ConcHandlerReturns(i)

ConcSpec == ConcInit /\ [][ConcNext]_vars

----------------------------------------------------------------------------
(* A caller that chains filtered calls of mal_search_anime: the same       *)
(* filters and limit each time, the first call at the caller's offset,     *)
(* every later call at the nextOffset the previous call returned.  The     *)
(* remote catalog does not change; its continuation indicator is           *)
(* arbitrary.  A call that failed is not part of the chain; the caller may *)
(* make it again.                                                          *)

ChainFilters ==
    { [genre_mode |-> "or", min_score |-> 80],
      [genre_mode |-> "or", status |-> "finished_airing"],
      [genre_mode |-> "or", min_score |-> 100] }

ChainLimits == {1, 10, MaxLimit}

ChainOffsets == {0, 12}

ChainInit ==
    /\ catalogSize \in CatalogSizes
    /\ CallIs(IdleCall)
    /\ caller \in [rest : ChainFilters, limit : ChainLimits, offset : ChainOffsets]
    /\ chain = <<>>
    /\ probe = Undefined
    /\ verdict = Undefined
    /\ inflight = Undefined

\* The offset of the caller's next call, when there is one
ChainOffset ==
    IF chain = <<>> THEN caller.offset ELSE chain[Len(chain)].meta.nextOffset

\* The caller makes its next call
ChainCall ==
    /\ pc = "idle"
    /\ Len(chain) > 0 => Has(chain[Len(chain)].meta, "nextOffset")
    /\ CallBecomes(mal_search_anime(caller.rest, caller.limit, ChainOffset))
    /\ UNCHANGED <<catalogSize, auxVars>>

\* The caller receives the result of its call
ChainReturn ==
    /\ pc = "answered"
    /\ chain' = IF Has(response, "isError") THEN chain
                ELSE Append(chain, [initialOffset |-> initialOffset,
                                    call |-> calls[1],
                                    result |-> result,
                                    items |-> items,
                                    meta |-> meta])
    /\ CallBecomes(IdleCall)
    /\ UNCHANGED <<catalogSize, probe, verdict, inflight, caller>>

ChainNext ==
    \/ ChainCall
    \/ FetchResolves
    \/ FetchRejects
    \/ JsonResolves
    \/ JsonRejects
    \/ TextResolves
    \/ TextRejects
    \/ FilteredFetchResumes
    \/ HandlerResumes
    \/ HandleToolErrorResumes
    \/ ChainReturn

ChainSpec == ChainInit /\ [][ChainNext]_vars

----------------------------------------------------------------------------
(* Properties of filteredFetch *)

\* filteredFetch has returned: the call stands at the return or after it
Returned ==
    /\ pc \in {"returned", "formatted", "answered"}
    /\ tool \in ListTools
    /\ error = ""

Active == hasActiveFilters(filters)

\* Number of records of a window that satisfy the predicate
CountMatches(data, flt, ctx) ==
    Len(SelectSeq(data, LAMBDA it : matchesFilters(it.node, flt, ctx)))

MatchesInWindow == CountMatches(result.data, filters, seasonContext)

\* C1: on the filtered path, hasMorePages is true iff the remote response
\* carried a truthy paging.next and the fetched window holds exactly
\* FILTERED_PAGE_SIZE (100) records.
C1_HasMoreIffIndicatorAndFullWindow ==
    (Returned /\ Active) =>
        (meta.hasMorePages <=>
            (Truthy(result.paging) /\ Len(result.data) = FILTERED_PAGE_SIZE))

C1_Witness ==
    /\ Returned /\ Active
    /\ Truthy(result.paging)
    /\ Len(result.data) = FILTERED_PAGE_SIZE
    /\ meta.hasMorePages

\* C2 (as claimed): on either path, hasMorePages = true implies that the
\* fetched window held exactly 100 records.
C2_Original ==
    Returned => (meta.hasMorePages => Len(result.data) = FILTERED_PAGE_SIZE)

\* C2 (amended): on the filtered path, hasMorePages = true implies a window
\* of exactly 100 records, so a filtered call whose window holds fewer than
\* 100 records reports hasMorePages = false whatever the remote indicator
\* says.
C2_Amended ==
    (Returned /\ Active) =>
        /\ (meta.hasMorePages => Len(result.data) = FILTERED_PAGE_SIZE)
        /\ (Len(result.data) < FILTERED_PAGE_SIZE => ~meta.hasMorePages)

C2_Witness ==
    /\ Returned /\ Active
    /\ Truthy(result.paging)
    /\ Len(result.data) = 40
    /\ ~meta.hasMorePages

\* C3 (as claimed): whenever filteredFetch returns hasMorePages = true,
\* nextOffset equals initialOffset plus the number of records fetched
\* (totalScanned).
C3_Claim ==
    (Returned /\ meta.hasMorePages) =>
        /\ Has(meta, "nextOffset")
        /\ meta.nextOffset = initialOffset + meta.totalScanned

\* C4 (as claimed): in every returned FilterMeta, on either path, nextOffset
\* is defined iff hasMorePages is true.
C4_Claim ==
    Returned => (Has(meta, "nextOffset") <=> meta.hasMorePages)

\* C5 (as claimed): on the filtered path totalMatched is the number of
\* records of the whole fetched window that satisfy the predicate.
C5_Original ==
    (Returned /\ Active) => meta.totalMatched = MatchesInWindow

\* C5 (amended): on the filtered path totalMatched is the number of matches
\* accumulated before the scan stops, min(requestedLimit, m) where m is the
\* number of matching records in the window (a window of 100 with 12
\* matches and requestedLimit = 5 yields totalScanned = 100 and
\* totalMatched = 5); totalScanned is the size of the whole window.
C5_Amended ==
    (Returned /\ Active) =>
        /\ meta.totalMatched = Min(requestedLimit, MatchesInWindow)
        /\ meta.totalScanned = Len(result.data)

C5_Witness ==
    /\ Returned /\ Active
    /\ Len(result.data) = FILTERED_PAGE_SIZE
    /\ requestedLimit = 5
    /\ MatchesInWindow > requestedLimit
    /\ meta.totalMatched = 5
    /\ meta.totalScanned = FILTERED_PAGE_SIZE

\* C6: every successful call satisfies totalMatched <= totalScanned and
\* items.length <= min(requestedLimit, totalMatched).
C6_CountsBounded ==
    Returned =>
        /\ meta.totalMatched <= meta.totalScanned
        /\ Len(items) <= Min(requestedLimit, meta.totalMatched)

C6_Witness ==
    /\ Returned /\ ~Active
    /\ Len(result.data) < requestedLimit
    /\ Len(items) = meta.totalMatched
    /\ Len(items) > 0

\* C7: on the filtered path the returned items are exactly the first
\* min(requestedLimit, m) matching records of the window, in arrival order.
C7_FirstMatchesInOrder ==
    (Returned /\ Active) =>
        items = SubSeq(SelectSeq(result.data,
                                 LAMBDA it : matchesFilters(it.node, filters,
                                                            seasonContext)),
                       1, Min(requestedLimit, MatchesInWindow))

C7_Witness ==
    /\ Returned /\ Active
    /\ requestedLimit > 1
    /\ Len(items) = requestedLimit
    /\ MatchesInWindow > requestedLimit
    /\ matchesFilters(result.data[1].node, filters, seasonContext)
    /\ ~matchesFilters(result.data[2].node, filters, seasonContext)

\* C8: with active filters an invocation issues exactly one fetchPage call,
\* fetchPage(100, initialOffset), whatever requestedLimit is and however few
\* matches the window held, and reports pagesScanned = 1.
C8_SingleWindowFetch ==
    (pc # "idle" /\ Active) =>
        /\ calls = << [limit |-> FILTERED_PAGE_SIZE, offset |-> initialOffset] >>
        /\ (Returned => meta.pagesScanned = 1)

C8_Witness ==
    /\ Returned /\ Active
    /\ requestedLimit < FILTERED_PAGE_SIZE
    /\ Len(items) < requestedLimit
    /\ meta.hasMorePages
    /\ Len(calls) = 1

\* C9: with inactive filters the invocation calls
\* fetchPage(requestedLimit, initialOffset) exactly once and returns that
\* page verbatim, hasMorePages mirroring the remote indicator,
\* totalScanned = totalMatched = record count, pagesScanned = 1,
\* activeFilters = [].
C9_PassThrough ==
    (Returned /\ ~Active) =>
        /\ calls = << [limit |-> requestedLimit, offset |-> initialOffset] >>
        /\ items = RemotePage(tool, catalogSize, requestedLimit, initialOffset)
        /\ items = result.data
        /\ meta.hasMorePages = Truthy(result.paging)
        /\ meta.totalScanned = Len(result.data)
        /\ meta.totalMatched = Len(result.data)
        /\ meta.pagesScanned = 1
        /\ meta.activeFilters = <<>>

C9_Witness ==
    /\ Returned /\ ~Active
    /\ requestedLimit = 10 /\ initialOffset = 0
    /\ Len(items) = 10
    /\ items[1].node.id = 1 /\ items[10].node.id = 10
    /\ meta.hasMorePages

\* C10: when the fetchPage call rejects, filteredFetch rejects with the same
\* reason, after that single call, with no items and no meta; a rejected
\* fetch never ends as a successful return.
C10_FailurePropagates ==
    /\ (fetchError # "" /\ tool \in ListTools) =>
          /\ pc \in {"rejected", "threw", "answered"}
          /\ pc # "rejected" => error = fetchError
          /\ Len(calls) = 1
          /\ Len(items) = 0
          /\ DOMAIN meta = {}
    /\ error # "" => error = fetchError
    /\ pc = "threw" => error # ""

C10_Witness ==
    /\ pc = "threw"
    /\ Active
    /\ error = "MAL API error 500 Internal Server Error: oops"

----------------------------------------------------------------------------
(* Properties of the pure functions *)

Applied(name) == Has(verdict, "fn") /\ verdict.fn = name

Range(seq) == { seq[i] : i \in DOMAIN seq }

\* A field holds a non-empty, non-false value
NonEmptyNonFalse(flt, key) ==
    CASE key \in ArrayKeys -> Len(flt[key]) > 0
      [] key \in BoolKeys -> flt[key] = TRUE
      [] key = "status" -> flt[key] # ""
      [] OTHER -> TRUE

\* C11 (as claimed): hasActiveFilters(filters) is true iff some field other
\* than genre_mode holds a non-empty, non-false value; a spec holding only
\* genre_mode, only empty arrays, only current_season_only = false or only
\* an empty-string status is inactive.
C11_Claim ==
    Applied("hasActiveFilters") =>
        (verdict.active <=>
            \E key \in DOMAIN probe.filters \ {"genre_mode"} :
                NonEmptyNonFalse(probe.filters, key))

\* Lower-cased genre names a record carries / a spec field requests
CarriedGenres(node) ==
    IF Has(node, "genres")
    THEN { CaseFamily(node.genres[i].name)[1] : i \in DOMAIN node.genres }
    ELSE {}

RequestedGenres(flt, key) == { CaseFamily(flt[key][i])[1] : i \in DOMAIN flt[key] }

IsSetArray(flt, key) == Has(flt, key) /\ Len(flt[key]) > 0

\* The checks of the predicate, each guarded by its field being set
PassesEverySetCheck(node, flt, ctx) ==
    /\ IsSetArray(flt, "genres_include") =>
          IF Has(flt, "genre_mode") /\ flt.genre_mode = "and"
          THEN RequestedGenres(flt, "genres_include") \subseteq CarriedGenres(node)
          ELSE RequestedGenres(flt, "genres_include") \cap CarriedGenres(node) # {}
    /\ IsSetArray(flt, "genres_exclude") =>
          RequestedGenres(flt, "genres_exclude") \cap CarriedGenres(node) = {}
    /\ Has(flt, "min_score") =>
          (Has(node, "mean") /\ node.mean >= flt.min_score)
    /\ Has(flt, "min_members") =>
          (IF Has(node, "num_list_users") THEN node.num_list_users ELSE 0)
              >= flt.min_members
    /\ IsSetArray(flt, "media_type") =>
          (Has(node, "media_type") /\ node.media_type \in Range(flt.media_type))
    /\ (Has(flt, "status") /\ flt.status # "") =>
          (Has(node, "status") /\ node.status = flt.status)
    /\ IsSetArray(flt, "source") =>
          (Has(node, "source") /\ node.source \in Range(flt.source))
    /\ (Has(flt, "current_season_only") /\ flt.current_season_only
          /\ DOMAIN ctx # {}) =>
          /\ Has(node, "start_season")
          /\ node.start_season.year = ctx.queriedYear
          /\ node.start_season.season = ctx.queriedSeason

\* C12: matchesFilters returns true iff the record passes every check whose
\* field is set (a non-empty array, a number, a non-empty status, a true
\* flag with a season context); a missing record attribute fails its check,
\* except num_list_users, which counts as 0.
C12_ConjunctionOfSetChecks ==
    Applied("matchesFilters") =>
        (verdict.matches <=>
            PassesEverySetCheck(probe.node, probe.filters, probe.ctx))

C12_Witness ==
    /\ Applied("matchesFilters")
    /\ Has(probe.filters, "min_score") /\ probe.filters.min_score = 0
    /\ Has(probe.filters, "min_members") /\ probe.filters.min_members = 0
    /\ ~Has(probe.node, "mean")
    /\ ~Has(probe.node, "num_list_users")
    /\ ~verdict.matches

\* C13: for a non-empty genres_include and an otherwise identical spec,
\* a record that matches under genre_mode = 'and' matches under 'or';
\* 'and' demands every requested genre, 'or' (also the default) at least
\* one.
C13_AndWithinOr ==
    (Applied("matchesFilters/genre_mode")
       /\ IsSetArray(probe.filters, "genres_include")) =>
        /\ verdict.whenAnd => verdict.whenOr
        /\ verdict.whenAbsent = verdict.whenOr
        /\ verdict.whenAnd =>
              RequestedGenres(probe.filters, "genres_include")
                  \subseteq CarriedGenres(probe.node)
        /\ verdict.whenOr =>
              RequestedGenres(probe.filters, "genres_include")
                  \cap CarriedGenres(probe.node) # {}

C13_Witness ==
    /\ Applied("matchesFilters/genre_mode")
    /\ Has(probe.filters, "genres_include")
    /\ probe.filters.genres_include = <<"Action", "Romance">>
    /\ CarriedGenres(probe.node) = {"action"}
    /\ ~verdict.whenAnd
    /\ verdict.whenOr

\* C14: the result of matchesFilters does not change when the letter case
\* of requested or of record genre names changes, and a record carrying an
\* excluded genre in any case is rejected.
C14_GenreCaseIgnored ==
    Applied("matchesFilters/case") =>
        /\ \A st \in CaseStyles \X CaseStyles :
              verdict.recased[st] = verdict.asGiven
        /\ (IsSetArray(probe.filters, "genres_exclude")
              /\ RequestedGenres(probe.filters, "genres_exclude")
                    \cap CarriedGenres(probe.node) # {}) =>
              (~verdict.asGiven /\ \A st \in CaseStyles \X CaseStyles :
                                       ~verdict.recased[st])

C14_Witness ==
    /\ Applied("matchesFilters/case")
    /\ Has(probe.filters, "genres_include")
    /\ probe.filters.genres_include = <<"action">>
    /\ Has(probe.node, "genres")
    /\ probe.node.genres[1].name = "Action"
    /\ verdict.asGiven
    /\ verdict.recased[<<2, 3>>]

\* The labels of the description entries in their canonical order, and the
\* field each renders
CanonicalLabels ==
    << "genres", "exclude_genres", "min_score>=", "min_members>=",
       "media_type", "status", "source", "current_season_only" >>

FieldOfLabel(label) ==
    CASE label = "genres" -> "genres_include"
      [] label = "exclude_genres" -> "genres_exclude"
      [] label = "min_score>=" -> "min_score"
      [] label = "min_members>=" -> "min_members"
      [] OTHER -> label

HasActiveValue(flt, key) == Has(flt, key) /\ NonEmptyNonFalse(flt, key)

\* C17: buildActiveFilterDescriptions lists exactly the fields that hold an
\* active value, in the order genres (with the mode upper-cased, OR when
\* genre_mode is absent), exclude_genres, min_score, min_members,
\* media_type, status, source, current_season_only; an unset field, an
\* empty array, a false flag and genre_mode alone produce no entry.
C17_CanonicalDescriptions ==
    Applied("buildActiveFilterDescriptions") =>
        LET flt == probe.filters
            parts == verdict.parts
        IN /\ [i \in DOMAIN parts |-> parts[i].label]
                 = SelectSeq(CanonicalLabels,
                             LAMBDA l : HasActiveValue(flt, FieldOfLabel(l)))
           /\ \A i \in DOMAIN parts :
                 LET key == FieldOfLabel(parts[i].label)
                 IN CASE key = "genres_include" ->
                           /\ parts[i].joined = flt.genres_include
                           /\ parts[i].mode =
                                 (IF Has(flt, "genre_mode") /\ flt.genre_mode = "and"
                                  THEN "AND" ELSE "OR")
                      [] key \in ArrayKeys \ {"genres_include"} ->
                           parts[i].joined = flt[key]
                      [] key \in {"min_score", "min_members"} ->
                           parts[i].num = flt[key]
                      [] key = "status" -> parts[i].str = flt.status
                      [] OTHER -> DOMAIN parts[i] = {"label"}

C17_Witness ==
    /\ Applied("buildActiveFilterDescriptions")
    /\ Len(verdict.parts) = 2
    /\ verdict.parts[1].label = "exclude_genres"
    /\ verdict.parts[2].label = "min_score>="
    /\ verdict.parts[2].num = 0

----------------------------------------------------------------------------
(* Properties of the list tools *)

SeasonOnly == Has(filters, "current_season_only") /\ filters.current_season_only

\* C15: whenever current_season_only is true, every returned record has a
\* start_season equal to the queried year and season; the check always has
\* its season context.
C15_OnlyQueriedSeason ==
    (Returned /\ SeasonOnly) =>
        /\ DOMAIN seasonContext = {"queriedYear", "queriedSeason"}
        /\ \A k \in DOMAIN items :
              /\ Has(items[k].node, "start_season")
              /\ items[k].node.start_season.year = seasonContext.queriedYear
              /\ items[k].node.start_season.season = seasonContext.queriedSeason

C15_Witness ==
    /\ Returned /\ SeasonOnly
    /\ Len(items) > 0
    /\ \E j \in DOMAIN result.data : ~Has(result.data[j].node, "start_season")
    /\ \E j \in DOMAIN result.data :
          /\ Has(result.data[j].node, "start_season")
          /\ result.data[j].node.start_season.season = seasonContext.queriedSeason
          /\ result.data[j].node.start_season.year # seasonContext.queriedYear

StatusSet == Has(filters, "status") /\ filters.status # ""

\* C16: whenever the status field is set, every returned record has exactly
\* the requested status; records with another status or with none are
\* rejected.
C16_StatusExact ==
    (Returned /\ StatusSet) =>
        \A k \in DOMAIN items :
            /\ Has(items[k].node, "status")
            /\ items[k].node.status = filters.status

C16_Witness ==
    /\ Returned /\ StatusSet
    /\ Len(items) > 1
    /\ \E j \in DOMAIN result.data : ~Has(result.data[j].node, "status")
    /\ \E j \in DOMAIN result.data :
          /\ Has(result.data[j].node, "status")
          /\ result.data[j].node.status # filters.status

\* Records the remote still holds from initialOffset on
RemainingRecords ==
    IF catalogSize > initialOffset THEN catalogSize - initialOffset ELSE 0

\* C18 (as claimed): with active filters the search tool auto-paginates,
\* scanning up to 150 remote results to fill the requested limit: a call
\* that returns fewer than requestedLimit items has scanned 150 records, or
\* all that remain.
C18_Claim ==
    (Returned /\ Active /\ tool \in {"mal_search_anime", "mal_search_manga"}) =>
        \/ Len(items) = requestedLimit
        \/ meta.totalScanned >= Min(150, RemainingRecords)

\* C19: every item of a ranking call is one of the fetched records,
\* unmodified, and the rank printed for it is the rank the remote assigned
\* (its position in the remote ranking), not its position in the filtered
\* list.
C19_RanksKept ==
    (Returned /\ tool \in RankingTools) =>
        /\ \A k \in DOMAIN items :
              \E j \in DOMAIN result.data :
                  /\ items[k] = result.data[j]
                  /\ items[k].ranking.rank = initialOffset + j
        /\ \A s \in DOMAIN text :
              text[s].kind = "list" =>
                  \A k \in DOMAIN items :
                      text[s].prefixes[k] = items[k].ranking.rank

C19_Witness ==
    /\ Returned /\ Active /\ tool = "mal_anime_ranking"
    /\ Len(items) >= 2
    /\ items[1].ranking.rank > 1
    /\ items[2].ranking.rank > items[1].ranking.rank + 1
    /\ \E s \in DOMAIN text :
          /\ text[s].kind = "list"
          /\ text[s].prefixes[2] = items[2].ranking.rank

----------------------------------------------------------------------------
(* Properties of concurrent invocations *)

\* What an invocation returns when it runs alone with the arguments of
\* call c and the fetch response c received
AloneReturn(c) ==
    filteredFetchReturn(c.result,
                        pickFilters(c.toolArgs, ANIME_FILTER_KEYS),
                        c.toolArgs.limit, c.toolArgs.offset, Undefined)

\* C20: with several invocations in flight and their fetches resolving in
\* any order, each invocation issues at most one fetch, the one for its own
\* arguments, and returns exactly what it returns when it runs alone with
\* the same arguments and the same fetch response.
C20_InvocationsIsolated ==
    \A i \in DOMAIN inflight :
        LET inv == inflight[i]
        IN /\ Len(inv.calls) <= 1
           /\ inv.tool \in ListTools =>
                 inv.calls =
                     << [limit |-> FetchLimit(pickFilters(inv.toolArgs, ANIME_FILTER_KEYS),
                                              inv.toolArgs.limit),
                         offset |-> inv.toolArgs.offset] >>
           /\ (inv.tool \in ListTools /\ DOMAIN inv.meta # {}) =>
                 /\ inv.pc \in {"returned", "formatted", "answered"}
                 /\ inv.result.data =
                       RemotePage(inv.tool, catalogSize,
                                  inv.calls[1].limit, inv.calls[1].offset)
                 /\ inv.items = AloneReturn(inv).items
                 /\ inv.meta = AloneReturn(inv).meta
           /\ (inv.tool \in ListTools /\ inv.pc = "answered" /\ inv.error = "") =>
                 inv.response.content =
                     listToolText(inv.tool, AloneReturn(inv).items,
                                  AloneReturn(inv).meta, Undefined)

\* Call 1 holds its reply and has not read the body, call 2 has gone
\* from its request to its result meanwhile, with other filters
C20_Witness ==
    /\ DOMAIN inflight # {}
    /\ inflight[1].pc = "replied"
    /\ inflight[1].tool = "mal_search_anime"
    /\ hasActiveFilters(inflight[1].filters)
    /\ inflight[2].pc = "answered"
    /\ inflight[2].tool = "mal_anime_ranking"
    /\ ~hasActiveFilters(inflight[2].filters)
    /\ Len(inflight[2].items) = 1
    /\ inflight[2].calls # inflight[1].calls

----------------------------------------------------------------------------
(* Properties of the tool results *)

\* The tool result has been built
Answered == pc = "answered"

\* Positions of the segments of one kind in the text of the tool result
TextOf(kind) ==
    { k \in DOMAIN response.content : response.content[k].kind = kind }

\* C21: a tool handler never lets a failure escape: when the remote answers
\* with a status that is not ok, or the fetch otherwise fails, the tool call
\* returns a result with isError = true whose text is "Error: " followed by
\* the failure message, which for a reply that is not ok carries the
\* remote's status code and body; a successful call returns a result
\* without isError.
C21_Claim ==
    /\ DOMAIN response # {} <=> Answered
    /\ pc \in {"rejected", "threw"} => fetchError # ""
    /\ (Answered /\ fetchError # "") =>
          /\ Has(response, "isError") /\ response.isError
          /\ response.content =
                << [kind |-> "error", text |-> "Error: " \o fetchError] >>
          /\ (Has(httpResponse, "ok") /\ ~httpResponse.ok) =>
                \E r \in NonOkReplies :
                    /\ r.status = httpResponse.status
                    /\ response.content[1].text =
                          "Error: MAL API error " \o ToString(r.status)
                              \o " " \o r.statusText \o ": " \o r.body
    /\ (Answered /\ fetchError = "") =>
          /\ ~Has(response, "isError")
          /\ TextOf("error") = {}
          /\ response.content = text

SeasonOfMonth(m) ==
    CASE m \in 1 .. 3 -> "winter"
      [] m \in 4 .. 6 -> "spring"
      [] m \in 7 .. 9 -> "summer"
      [] m \in 10 .. 12 -> "fall"

\* C22: the seasonal tool queries the year and season given by the caller
\* and, for each of the two that is omitted, the current one (winter for
\* months 1-3, spring 4-6, summer 7-9, fall 10-12); the seasonContext
\* handed to the predicate is the (year, season) pair of the remote fetch.
C22_SeasonalQueryAndContext ==
    (tool = "mal_anime_seasonal" /\ pc # "idle") =>
        /\ httpRequest.path = "/anime/season"
        /\ httpRequest.year =
              IF Has(toolArgs, "year") THEN toolArgs.year ELSE now.year
        /\ httpRequest.season =
              IF Has(toolArgs, "season") THEN toolArgs.season
              ELSE SeasonOfMonth(now.month)
        /\ seasonContext = [queriedYear |-> httpRequest.year,
                            queriedSeason |-> httpRequest.season]

C22_Witness ==
    /\ tool = "mal_anime_seasonal" /\ Returned
    /\ ~Has(toolArgs, "season") /\ Has(toolArgs, "year")
    /\ now.month = 9
    /\ httpRequest.season = "summer"
    /\ httpRequest.year = 2023 /\ now.year = 2024
    /\ SeasonOnly /\ Len(items) > 0

\* C23: a filtered call in which no record of the window matches completes
\* successfully with an empty item list and totalMatched = 0 (totalScanned
\* still the window size); it is not reported as an error and the tool
\* renders it as the "No anime found." text without isError.
C23_NoMatchIsSuccess ==
    (tool \in ListTools /\ Active /\ DOMAIN result # {} /\ MatchesInWindow = 0) =>
        /\ pc \in {"parsed", "returned", "formatted", "answered"}
        /\ pc # "parsed" =>
              /\ Returned
              /\ items = <<>>
              /\ meta.totalMatched = 0
              /\ meta.totalScanned = Len(result.data)
        /\ Answered =>
              /\ ~Has(response, "isError")
              /\ \E k \in DOMAIN response.content :
                    /\ k = Len(response.content)
                    /\ response.content[k] =
                          [kind |-> "empty",
                           text |-> IF tool \in MangaListTools
                                    THEN "No manga found." ELSE "No anime found."]
              /\ TextOf("list") = {} /\ TextOf("error") = {}

C23_Witness ==
    /\ Returned /\ Active /\ Answered
    /\ tool = "mal_search_anime"
    /\ Len(result.data) = FILTERED_PAGE_SIZE
    /\ MatchesInWindow = 0
    /\ meta.totalScanned = FILTERED_PAGE_SIZE
    /\ TextOf("empty") # {}

\* C27: on the filtered path meta.totalMatched equals items.length and
\* never exceeds requestedLimit, so the count in the "Showing N results"
\* header equals the number of items listed below it.
C27_ShownCountIsListedCount ==
    (Returned /\ Active) =>
        /\ meta.totalMatched = Len(items)
        /\ meta.totalMatched <= requestedLimit
        /\ Answered =>
              /\ TextOf("filterMeta") # {}
              /\ \A h \in TextOf("filterMeta") :
                    /\ response.content[h].showing = Len(items)
                    /\ \A l \in TextOf("list") :
                          Len(response.content[l].ids) = response.content[h].showing
                    /\ TextOf("list") = {} => response.content[h].showing = 0

C27_Witness ==
    /\ Returned /\ Active /\ Answered
    /\ MatchesInWindow > requestedLimit
    /\ \E h \in TextOf("filterMeta"), l \in TextOf("list") :
          /\ response.content[h].showing = 5
          /\ Len(response.content[l].ids) = 5
          /\ response.content[h].scanned = FILTERED_PAGE_SIZE

\* C30: the line "More results available (increase offset)." appears iff
\* meta.hasMorePages is true and at least one item is listed; with active
\* filters the header ends with "More results may exist beyond scanned
\* pages." iff meta.hasMorePages is true; so a filtered call whose window
\* held fewer than 100 records never tells the caller that more results
\* are available.
C30_MoreLinesFollowHasMore ==
    (Returned /\ Answered) =>
        /\ TextOf("pagination") # {} <=> (meta.hasMorePages /\ Len(items) > 0)
        /\ Active =>
              /\ TextOf("filterMeta") # {}
              /\ \A h \in TextOf("filterMeta") :
                    response.content[h].more # "" <=> meta.hasMorePages
        /\ (Active /\ Len(result.data) < FILTERED_PAGE_SIZE) =>
              /\ TextOf("pagination") = {}
              /\ \A h \in TextOf("filterMeta") : response.content[h].more = ""

C30_Witness ==
    /\ Returned /\ Active /\ Answered
    /\ Truthy(result.paging)
    /\ Len(result.data) > 0 /\ Len(result.data) < FILTERED_PAGE_SIZE
    /\ Len(items) > 0
    /\ TextOf("pagination") = {}
    /\ \E h \in TextOf("filterMeta") : response.content[h].more = ""

----------------------------------------------------------------------------
(* Properties of chained calls *)

\* Catalog positions a call of the chain fetched
WindowOf(k) ==
    { chain[k].call.offset + j : j \in 1 .. Len(chain[k].result.data) }

ReturnedIds(k) == { chain[k].items[j].node.id : j \in DOMAIN chain[k].items }

ChainEnded == chain # <<>> /\ ~chain[Len(chain)].meta.hasMorePages

\* The continuation indicator tells the truth about the catalog
IndicatorTruthful ==
    \A k \in DOMAIN chain :
        Truthy(chain[k].result.paging) <=>
            chain[k].call.offset + Len(chain[k].result.data) < catalogSize

\* C24: in a chain of filtered calls that follows nextOffset, the fetched
\* windows are contiguous and disjoint: each window starts exactly where
\* the previous one ended, no remote record is fetched in two calls and no
\* record is returned twice.
C24_WindowsContiguousDisjoint ==
    /\ \A k \in DOMAIN chain :
          /\ chain[k].call = [limit |-> FILTERED_PAGE_SIZE,
                              offset |-> chain[k].initialOffset]
          /\ k > 1 =>
                chain[k].call.offset =
                    chain[k - 1].call.offset + Len(chain[k - 1].result.data)
          /\ \A j \in DOMAIN chain[k].result.data :
                chain[k].result.data[j].node.id = chain[k].call.offset + j
          /\ Cardinality(ReturnedIds(k)) = Len(chain[k].items)
    /\ \A k, l \in DOMAIN chain :
          k # l => /\ WindowOf(k) \cap WindowOf(l) = {}
                   /\ ReturnedIds(k) \cap ReturnedIds(l) = {}

C24_Witness ==
    /\ Len(chain) = 3
    /\ chain[1].initialOffset = 12
    /\ chain[2].initialOffset = 112
    /\ chain[3].initialOffset = 212
    /\ Len(chain[2].items) > 0
    /\ chain[3].result.data = <<>>

\* C25 (as claimed): a chain followed until hasMorePages is false returns
\* every record of the catalog from the first initialOffset on that
\* satisfies the predicate; no matching record is skipped.  Stated for a
\* remote whose continuation indicator tells the truth.
C25_Claim ==
    (ChainEnded /\ IndicatorTruthful) =>
        \A p \in (caller.offset + 1) .. catalogSize :
            matchesFilters(ListItem("mal_search_anime", p).node,
                           pickFilters(caller.rest, ANIME_FILTER_KEYS),
                           Undefined) =>
                \E k \in DOMAIN chain : p \in ReturnedIds(k)

\* C26: every returned nextOffset is the initialOffset of its call plus
\* 100, and against a catalog of N records a chain reaches a call with
\* hasMorePages = false within floor(N / 100) + 1 calls, even when the
\* remote's continuation indicator is always truthy.
C26_ChainTerminates ==
    /\ \A k \in DOMAIN chain :
          /\ Has(chain[k].meta, "nextOffset") =>
                /\ chain[k].meta.nextOffset =
                      chain[k].initialOffset + FILTERED_PAGE_SIZE
                /\ chain[k].meta.nextOffset > chain[k].initialOffset
          /\ k >= (catalogSize \div FILTERED_PAGE_SIZE) + 1 =>
                /\ ~chain[k].meta.hasMorePages
                /\ ~Has(chain[k].meta, "nextOffset")
    /\ Len(chain) <= (catalogSize \div FILTERED_PAGE_SIZE) + 1

C26_Witness ==
    /\ catalogSize = 200
    /\ Len(chain) = 3
    /\ \A k \in DOMAIN chain : Truthy(chain[k].result.paging)
    /\ chain[1].initialOffset = 0
    /\ chain[2].meta.nextOffset = 200
    /\ ChainEnded

----------------------------------------------------------------------------
(* Properties of the activity test against the descriptions *)

\* Values the tool input schemas accept (scores in tenths)
SchemaValid(flt) ==
    /\ Has(flt, "status") =>
          flt.status \in {"currently_airing", "finished_airing", "not_yet_aired"}
    /\ Has(flt, "min_score") => flt.min_score \in 0 .. 100
    /\ Has(flt, "min_members") => flt.min_members >= 0
    /\ Has(flt, "genre_mode") => flt.genre_mode \in {"or", "and"}
    /\ Has(flt, "media_type") =>
          Range(flt.media_type) \subseteq
              {"tv", "ova", "movie", "ona", "special", "music"}
    /\ Has(flt, "source") =>
          Range(flt.source) \subseteq
              {"manga", "light_novel", "original", "visual_novel", "game", "other"}

HeaderPrinted(txt) == \E k \in DOMAIN txt : txt[k].kind = "filterMeta"

\* Limit of the call made with the probe's filters
ProbeLimit == 10

\* The page tool t fetches from a remote that holds the probe's record alone
ProbePage(t) ==
    [data |-> << IF t \in RankingTools
                 THEN [node |-> probe.node, ranking |-> [rank |-> 1]]
                 ELSE [node |-> probe.node] >>,
     paging |-> Undefined]

\* What filteredFetch returns for that page under filters flt
ProbeReturn(t, flt) ==
    filteredFetchReturn(ProbePage(t), flt, ProbeLimit, 0, probe.ctx)

\* The anime list tools whose handler passes filters flt and context ctx
\* to filteredFetch: every key is among the keys the handler picks, and
\* only the seasonal handler passes a seasonContext
ToolsPassing(flt, ctx) ==
    { t \in AnimeListTools :
        /\ DOMAIN flt \subseteq (IF t = "mal_anime_seasonal"
                                 THEN SEASONAL_FILTER_KEYS ELSE ANIME_FILTER_KEYS)
        /\ (DOMAIN ctx # {}) <=> (t = "mal_anime_seasonal") }

\* C28: for every filter object valid under the tool input schemas,
\* hasActiveFilters is true iff buildActiveFilterDescriptions is non-empty;
\* hence meta.activeFilters is non-empty exactly when the filtered
\* (100-record) path was taken, and the tool prints the filter header
\* exactly in that case.
C28_ActiveIffDescribed ==
    (Applied("hasActiveFilters") /\ SchemaValid(probe.filters)) =>
        LET parts == buildActiveFilterDescriptions(probe.filters)
            limit == FetchLimit(probe.filters, ProbeLimit)
        IN /\ verdict.active <=> Len(parts) > 0
           /\ limit # FILTERED_PAGE_SIZE => limit = ProbeLimit
           /\ \A t \in ToolsPassing(probe.filters, probe.ctx) :
                 LET ret == ProbeReturn(t, probe.filters)
                 IN /\ Len(ret.meta.activeFilters) > 0 <=>
                          limit = FILTERED_PAGE_SIZE
                    /\ ret.meta.activeFilters = parts
                    /\ HeaderPrinted(listToolText(t, ret.items, ret.meta,
                                                  probe.ctx))
                          <=> limit = FILTERED_PAGE_SIZE

C28_Witness ==
    /\ Applied("hasActiveFilters")
    /\ probe.filters = [min_score |-> 0, genres_include |-> <<>>]
    /\ verdict.active
    /\ FetchLimit(probe.filters, ProbeLimit) = FILTERED_PAGE_SIZE
    /\ ToolsPassing(probe.filters, probe.ctx) =
          {"mal_search_anime", "mal_anime_ranking"}
    /\ HeaderPrinted(listToolText("mal_search_anime",
                                  ProbeReturn("mal_search_anime", probe.filters).items,
                                  ProbeReturn("mal_search_anime", probe.filters).meta,
                                  probe.ctx))

\* The filter object without its empty arrays and false flags
IsEmptyValue(flt, key) ==
    \/ key \in ArrayKeys /\ Len(flt[key]) = 0
    \/ key \in BoolKeys /\ flt[key] = FALSE

WithoutEmptyValues(flt) ==
    [key \in { k \in DOMAIN flt : ~IsEmptyValue(flt, k) } |-> flt[key]]

\* C29: a filter field set to an empty array, or current_season_only set
\* to false, behaves exactly like the same field being absent: neither
\* hasActiveFilters, nor matchesFilters on any record, nor the description
\* list, nor the result of filteredFetch changes.
C29_EmptyAsAbsent ==
    LET absent == WithoutEmptyValues(probe.filters)
    IN /\ Applied("hasActiveFilters") =>
             /\ verdict.active = hasActiveFilters(absent)
             /\ FetchLimit(probe.filters, ProbeLimit) = FetchLimit(absent, ProbeLimit)
             /\ ProbeReturn("mal_search_anime", probe.filters) =
                   ProbeReturn("mal_search_anime", absent)
       /\ Applied("matchesFilters") =>
             verdict.matches = matchesFilters(probe.node, absent, probe.ctx)
       /\ Applied("buildActiveFilterDescriptions") =>
             verdict.parts = buildActiveFilterDescriptions(absent)

C29_Witness ==
    /\ Applied("hasActiveFilters")
    /\ probe.filters = [media_type |-> <<>>, min_score |-> 80]
    /\ WithoutEmptyValues(probe.filters) = [min_score |-> 80]
    /\ verdict.active
    /\ FetchLimit(probe.filters, ProbeLimit) = FILTERED_PAGE_SIZE
    /\ Len(ProbeReturn("mal_search_anime", probe.filters).items) = 1

====
